---- MODULE Spec2Model ----
(***************************************************************************)
(* The PDF translation pipeline of openai-translator:                      *)
(*   Model.translate_prompt        (ai_translator/model/model.py)          *)
(*   OpenAIModel.make_request      (ai_translator/model/openai_model.py)   *)
(*   PDFTranslator.translate_pdf   (ai_translator/translator/              *)
(*                                  pdf_translator.py)                     *)
(* A Python str is a sequence of one-character strings.  Characters that   *)
(* are not ASCII are written by code point ("U7FFB" is U+7FFB).            *)
(***************************************************************************)
EXTENDS Integers, Sequences, FiniteSets, TLC

\* ------------------------------------------------------------------ bounds
\* Most pages of a parsed document.
MaxPages == 2
\* Most content units of a parsed document, over all its pages.
MaxUnits == 3
\* Most connectivity / generic API errors the backend reports in one call of
\* make_request (the code itself puts no limit on them).
MaxApiErrors == 1
\* Longest source text given to translate_prompt on its own.
MaxLen == 2
\* Most clicks on the Translate button of the window.
MaxClicks == 3
\* Most invocations of the model in one run of the chatbot's graph.
MaxTurns == 2
\* Most tool calls in one AI message.
MaxToolCalls == 2
\* Most URLs in the list given to _select_best_chinese_news_url.
MaxUrls == 3

\* ----------------------------------------------------------------- strings
NL == "\n"

IsSpace(c) == c \in {" ", "\n", "\t"}

RECURSIVE LStrip(_)
LStrip(s) ==
    IF s # <<>> /\ IsSpace(Head(s)) THEN LStrip(Tail(s)) ELSE s

RECURSIVE RStrip(_)
RStrip(s) ==
    IF s # <<>> /\ IsSpace(s[Len(s)]) THEN RStrip(SubSeq(s, 1, Len(s) - 1)) ELSE s

\* str.strip()
Strip(s) == RStrip(LStrip(s))

\* sep.join(parts)
RECURSIVE Join(_, _)
Join(sep, parts) ==
    IF parts = <<>> THEN <<>>
    ELSE IF Len(parts) = 1 THEN parts[1]
    ELSE parts[1] \o sep \o Join(sep, Tail(parts))

\* ---------------------------------------------------------- target languages
Chinese  == <<"U4E2D", "U6587">>                    \* "中文"
French   == <<"U6CD5", "U8BED">>                    \* "法语"
Japanese == <<"U65E5", "U8BED">>                    \* "日语"
German   == <<"U5FB7", "U8BED">>                    \* "德语", not in the mapping

\* "翻译为"
TranslateInto == <<"U7FFB", "U8BD1", "U4E3A">>
\* "："
Colon == <<"UFF1A">>
\* "，保持表格格式："
KeepTableFormat ==
    <<"UFF0C", "U4FDD", "U6301", "U8868", "U683C", "U683C", "U5F0F", "UFF1A">>

\* language_prompts of make_text_prompt
TextPrompts ==
    [zh |-> TranslateInto \o Chinese \o Colon,
     fr |-> <<"T", "r", "a", "n", "s", "l", "a", "t", "e", " ", "t", "o", " ",
              "F", "r", "e", "n", "c", "h", ":">>,
     ja |-> <<"U7FFB", "U8A33", "U3092", "U65E5", "U672C", "U8A9E", "U306B", "UFF1A">>]

\* language_prompts of make_table_prompt
TablePrompts ==
    [zh |-> TranslateInto \o Chinese \o KeepTableFormat,
     fr |-> <<"T", "r", "a", "n", "s", "l", "a", "t", "e", " ", "t", "o", " ",
              "F", "r", "e", "n", "c", "h", ",", " ", "m", "a", "i", "n", "t",
              "a", "i", "n", " ", "t", "a", "b", "l", "e", " ", "f", "o", "r",
              "m", "a", "t", ":">>,
     ja |-> <<"U7FFB", "U8A33", "U3092", "U65E5", "U672C", "U8A9E", "U306B", "U3001",
              "U8868", "U306E", "U5F62", "U5F0F", "U3092", "U7DAD", "U6301", "UFF1A">>]

\* dict.get(target_language, default) on a mapping keyed "中文", "法语", "日语"
Lookup(prompts, target_language, default) ==
    IF target_language = Chinese THEN prompts.zh
    ELSE IF target_language = French THEN prompts.fr
    ELSE IF target_language = Japanese THEN prompts.ja
    ELSE default

make_text_prompt(text, target_language) ==
    Lookup(TextPrompts, target_language, TranslateInto \o target_language \o Colon)
        \o text

make_table_prompt(table, target_language) ==
    Lookup(TablePrompts, target_language,
           TranslateInto \o target_language \o KeepTableFormat)
        \o <<NL>> \o table

\* ------------------------------------------------------------ content units
\* An optional value: None, or Some(v).
None == <<>>
Some(v) == <<v>>

\* A content unit as the parser builds it: no translation yet.  Its original is
\* a str for a TEXT unit and a table for a TABLE unit, here the field text
\* and the field rows (the rows of the table, each a str).
Content(type, text, rows) ==
    [content_type |-> type, text |-> text, rows |-> rows,
     translation |-> None, status |-> FALSE]

TextContent(text) == Content("TEXT", text, <<>>)

TableContent(rows) == Content("TABLE", <<>>, rows)

\* TableContent.get_original_as_str: the rows of the table, one per line.
get_original_as_str(content) == Join(<<NL>>, content.rows)

\* Content.set_translation(translation, status)
set_translation(content, translation, status) ==
    [content EXCEPT !.translation = Some(translation), !.status = status]

\* A bug: a TABLE unit is given the plain-text template.
translate_prompt_as_text(content, target_language) ==
    make_text_prompt(IF content.content_type = "TEXT" THEN content.text
                     ELSE get_original_as_str(content),
                     target_language)

translate_prompt(content, target_language) ==
    IF content.content_type = "TEXT"
    THEN make_text_prompt(content.text, target_language)
    ELSE make_table_prompt(get_original_as_str(content), target_language)


\* ------------------------------------------------------------------- inputs
\* The content units of a sequence of pages.
RECURSIVE CountContents(_)
CountContents(pages) ==
    IF pages = <<>> THEN 0 ELSE Len(Head(pages)) + CountContents(Tail(pages))

\* The unit the parser finds at place c of page p: TEXT and TABLE units
\* alternate, and the original of each names its place, so that no two units
\* of a document have the same original.
ParsedContent(p, c) ==
    IF (p + c) % 2 = 0
    THEN TextContent(<<ToString(p), ".", ToString(c)>>)
    ELSE TableContent(<< <<ToString(p)>>, <<ToString(c)>> >>)

\* The document whose page p has sizes[p] content units.
ParsedDoc(sizes) ==
    [p \in 1..Len(sizes) |-> [c \in 1..sizes[p] |-> ParsedContent(p, c)]]

\* The documents parse_pdf may return: every shape of at most MaxPages pages
\* (empty pages too) and MaxUnits content units.
Docs ==
    {d \in {ParsedDoc(sizes) : sizes \in UNION {[1..p -> 0..MaxUnits] : p \in 0..MaxPages}} :
        CountContents(d) <= MaxUnits}

\* The target languages translate_pdf is called with: one of the mapping, one not.
PipelineLanguages == {Chinese, German}

\* The backends a PDFTranslator is built on.
Backends == {"OpenAIModel", "GLMModel"}

\* The model names an OpenAIModel is built with.
ModelNames == {"gpt-3.5-turbo", "text-davinci-003"}

\* The text of a backend response, before make_request strips it.
Responses == {<<" ", "x", NL>>, <<" ">>}

\* What the backend does with one request of OpenAIModel.make_request.
Outcomes == {"ok", "RateLimitError", "APIConnectionError", "APIError", "Exception"}

\* What GLMModel.make_request returns: a translation, or a partial or empty
\* text with success = False.
GLMResults ==
    {[translation |-> <<"x">>, status |-> TRUE],
     [translation |-> <<"y">>, status |-> FALSE],
     [translation |-> <<>>, status |-> FALSE]}

\* No backend request yet.
NoOutcomes == [o \in Outcomes |-> 0]

\* The connectivity and generic API errors among the counted outcomes.
ApiErrors(counts) == counts["APIConnectionError"] + counts["APIError"]

\* --------------------------------------------------------- program constants
\* while attempts < 3 / if attempts < 3
MaxAttempts == 3
\* time.sleep(60)
BackoffSeconds == 60

\* ------------------------------------------------------------------- state
VARIABLES
    model,               \* self.model: the backend class
    model_name,          \* OpenAIModel.model
    pc,                  \* where the run of translate_pdf is
    target_language,     \* translate_pdf's parameter
    book,                \* self.book.pages: a sequence of pages of content units
    total_contents,
    processed_contents,
    translated_text,
    page_idx,            \* 1-based here, 0-based in the code
    content_idx,
    prompt,
    translation,
    status,
    attempts,            \* make_request's local
    requests,            \* the backend requests of the current make_request call:
                         \*   the API each went to
    outcomes,            \* how many of them met each outcome
    sleeps,              \* the time.sleep arguments of the current make_request call
    request_log,         \* every make_request call: its prompt and the unit it is for
    return_log,          \* every (translation, status) make_request returned
    set_log,             \* every set_translation call: the unit it was made on
    progress_log,        \* every progress line: (processed_contents, total_contents)
    writer_calls,        \* every save_translated_book call: the book it was given
    result,              \* what translate_pdf returned
    error,               \* the exception that left translate_pdf
    p_content,           \* translate_prompt on its own: its content unit,
    p_language,          \*   its target language,
    p_prompt             \*   and what it returned

\* The window of gui.py (TranslatorGUI) and its worker threads.
VARIABLES
    pdf_path_input,      \* self.pdf_path_input.text()
    model_type_combo,    \* self.model_type_combo.currentText()
    api_key_input,       \* self.api_key_input.text()
    glm_url_input,       \* self.glm_url_input.text()
    translate_btn,       \* self.translate_btn.isEnabled()
    progress_bar,        \* self.progress_bar: its maximum and value
    status_text,         \* self.status_text: its lines
    translation_text,    \* self.translation_text: its text
    dialogs,             \* every QMessageBox shown so far
    workers,             \* every TranslatorThread started so far; the last is
                         \*   self.translator_thread
    events,              \* the signals queued for the window's thread
    emitted,             \* every signal the workers emitted so far
    clicks               \* how often start_translation was called

\* The graph of chatbot.py, its router and its tool node.
VARIABLES
    driver,              \* what is run: the graph, or route_tools or the
                         \*   tool node on a state of its own
    graph_state,         \* the state: its form and its messages
    node,                \* the node, or the place in one, the run is at
    trace,               \* the nodes that ran so far
    routed,              \* what route_tools returned or raised last
    node_message,        \* BasicToolNode.__call__: message
    outputs,             \* BasicToolNode.__call__: outputs
    invoked,             \* the tool invocations of this call of the tool node
    turns,               \* how often the model was invoked
    raised               \* the exception that ended the run or the call

\* One call of TranslationChain.run (translation_chain.py).
VARIABLES
    chain_text,          \* run: text
    chain_source,        \* run: source_language
    chain_target,        \* run: target_language
    chain_pc,            \* where the call of run is
    chain_result,        \* run: result
    chain_outcome,       \* what self.chain.run did: its value or its exception
    chain_log,           \* the LOG.error lines
    chain_returned,      \* what run returned: (result, success)
    chain_raised         \* the exception that left run

\* One call of AutoGPTTool._select_best_chinese_news_url (autogpt.py).
VARIABLES
    news_urls,           \* _select_best_chinese_news_url: urls
    selected_url         \* what it returned

runVars == <<model, model_name, pc, target_language, book, total_contents,
             processed_contents, translated_text, page_idx, content_idx>>
callVars == <<prompt, translation, status, attempts, requests, outcomes, sleeps>>
logVars == <<request_log, return_log, set_log, progress_log, writer_calls,
             result, error>>
promptVars == <<p_content, p_language, p_prompt>>
inputVars == <<pdf_path_input, model_type_combo, api_key_input, glm_url_input>>
windowVars == <<translate_btn, progress_bar, status_text, translation_text, dialogs>>
threadVars == <<workers, events, emitted, clicks>>
guiVars == <<inputVars, windowVars, threadVars>>
chatVars == <<driver, graph_state, node, trace, routed, node_message, outputs,
              invoked, turns, raised>>
\* The state of the programs beside the translator's pipeline and prompts.
chainVars == <<chain_text, chain_source, chain_target, chain_pc, chain_result,
               chain_outcome, chain_log, chain_returned, chain_raised>>
newsVars == <<news_urls, selected_url>>
otherVars == <<guiVars, chatVars, chainVars, newsVars>>
vars == <<runVars, callVars, logVars, promptVars, otherVars>>

\* The window after TranslatorGUI.__init__: empty line edits, the first item
\* of the combo box, an enabled button, a QProgressBar as Qt builds it, no
\* thread (self.translator_thread = None).
WindowBuilt ==
    /\ pdf_path_input = ""
    /\ model_type_combo = "OpenAIModel"
    /\ api_key_input = ""
    /\ glm_url_input = ""
    /\ translate_btn = TRUE
    /\ progress_bar = [maximum |-> 100, value |-> -1]
    /\ status_text = <<>>
    /\ translation_text = ""
    /\ dialogs = <<>>
    /\ workers = <<>>
    /\ events = <<>>
    /\ emitted = <<>>
    /\ clicks = 0

\* No run of the chatbot's graph yet.
ChatbotIdle ==
    /\ driver = "graph"
    /\ graph_state = [form |-> "dict", has_messages |-> TRUE, messages |-> <<>>]
    /\ node = "__start__"
    /\ trace = <<>>
    /\ routed = None
    /\ node_message = None
    /\ outputs = <<>>
    /\ invoked = <<>>
    /\ turns = 0
    /\ raised = None

\* No call of TranslationChain.run yet.
ChainIdle ==
    /\ chain_text = ""
    /\ chain_source = "English"
    /\ chain_target = "Chinese"
    /\ chain_pc = "idle"
    /\ chain_result = ""
    /\ chain_outcome = None
    /\ chain_log = <<>>
    /\ chain_returned = None
    /\ chain_raised = None

\* No call of _select_best_chinese_news_url yet.
NewsIdle ==
    /\ news_urls = <<>>
    /\ selected_url = None

\* The translator before translate_pdf and translate_prompt are called.
TranslatorIdle ==
    /\ model = "OpenAIModel"
    /\ model_name = "gpt-3.5-turbo"
    /\ pc = "idle"
    /\ target_language = Chinese
    /\ book = <<>>
    /\ total_contents = 0
    /\ processed_contents = 0
    /\ translated_text = <<>>
    /\ page_idx = 0
    /\ content_idx = 0
    /\ prompt = <<>>
    /\ translation = <<>>
    /\ status = FALSE
    /\ attempts = 0
    /\ requests = <<>>
    /\ outcomes = NoOutcomes
    /\ sleeps = <<>>
    /\ request_log = <<>>
    /\ return_log = <<>>
    /\ set_log = <<>>
    /\ progress_log = <<>>
    /\ writer_calls = <<>>
    /\ result = None
    /\ error = None
    /\ p_content = TextContent(<<>>)
    /\ p_language = Chinese
    /\ p_prompt = None

\* A PDFTranslator built on a backend, before translate_pdf is called; no call
\* of translate_prompt on its own.
Init ==
    /\ model \in Backends
    /\ model_name \in (IF model = "OpenAIModel" THEN ModelNames ELSE {"glm"})
    /\ pc = "idle"
    /\ target_language = Chinese
    /\ book = <<>>
    /\ total_contents = 0
    /\ processed_contents = 0
    /\ translated_text = <<>>
    /\ page_idx = 0
    /\ content_idx = 0
    /\ prompt = <<>>
    /\ translation = <<>>
    /\ status = FALSE
    /\ attempts = 0
    /\ requests = <<>>
    /\ outcomes = NoOutcomes
    /\ sleeps = <<>>
    /\ request_log = <<>>
    /\ return_log = <<>>
    /\ set_log = <<>>
    /\ progress_log = <<>>
    /\ writer_calls = <<>>
    /\ result = None
    /\ error = None
    /\ p_content = TextContent(<<>>)
    /\ p_language = Chinese
    /\ p_prompt = None
    /\ WindowBuilt
    /\ ChatbotIdle
    /\ ChainIdle
    /\ NewsIdle

\* ------------------------------------------------------------ translate_pdf
\* The unit the loops of translate_pdf are at.
Here == <<page_idx, content_idx>>

\* output_file_path when none is given: the input path without its extension,
\* "_translated_", the target language, ".", the lower-cased file format.
OutputPath(base_name, language, file_format) ==
    [base_name |-> base_name, language |-> language, extension |-> file_format]

\* A bug: the pages are counted, not their content units.
TotalPages(pages) == Len(pages)

\* total_contents = sum(len(page.contents) for page in self.book.pages)
TotalContents(pages) == CountContents(pages)

\* A bug: the translation is put before the earlier ones.
AppendedInFront(texts, text) == <<text>> \o texts

\* translated_text.append(translation)
Appended(texts, text) == Append(texts, text)

\* processed_contents += 1
Counted(n) == n + 1

\* A bug: one newline between the translations.
JoinedByNewline(texts) == Join(<<NL>>, texts)

\* "\n\n".join(translated_text)
Joined(texts) == Join(<<NL, NL>>, texts)

\* translate_pdf up to its loops: parse the file, count the content units.
Parse ==
    /\ pc = "idle"
    /\ \E doc \in Docs, language \in PipelineLanguages :
        /\ book' = doc
        /\ target_language' = language
        /\ total_contents' = TotalContents(doc)
    /\ processed_contents' = 0
    /\ translated_text' = <<>>
    /\ page_idx' = 0
    /\ content_idx' = 0
    /\ pc' = "for_page"
    /\ UNCHANGED <<model, model_name, callVars, logVars, promptVars, otherVars>>

\* for page_idx, page in enumerate(self.book.pages)
ForPage ==
    /\ pc = "for_page"
    /\ IF page_idx < Len(book)
       THEN /\ page_idx' = page_idx + 1
            /\ content_idx' = 0
            /\ pc' = "for_content"
       ELSE /\ pc' = "save"
            /\ UNCHANGED <<page_idx, content_idx>>
    /\ UNCHANGED <<model, model_name, target_language, book, total_contents,
                   processed_contents, translated_text, callVars, logVars,
                   promptVars, otherVars>>

\* A bug: the writer is called inside the page loop, at the end of the first page.
ForContentSavingEarly ==
    /\ pc = "for_content"
    /\ IF content_idx < Len(book[page_idx])
       THEN /\ content_idx' = content_idx + 1
            /\ pc' = "prompt"
       ELSE /\ pc' = "save"
            /\ UNCHANGED content_idx
    /\ UNCHANGED <<model, model_name, target_language, book, total_contents,
                   processed_contents, translated_text, page_idx, callVars,
                   logVars, promptVars, otherVars>>

\* for content_idx, content in enumerate(page.contents)
ForContent ==
    /\ pc = "for_content"
    /\ IF content_idx < Len(book[page_idx])
       THEN /\ content_idx' = content_idx + 1
            /\ pc' = "prompt"
       ELSE /\ pc' = "for_page"
            /\ UNCHANGED content_idx
    /\ UNCHANGED <<model, model_name, target_language, book, total_contents,
                   processed_contents, translated_text, page_idx, callVars,
                   logVars, promptVars, otherVars>>

\* prompt = self.model.translate_prompt(content, target_language)
BuildPrompt ==
    /\ pc = "prompt"
    /\ prompt' = translate_prompt(book[page_idx][content_idx], target_language)
    /\ pc' = "call"
    /\ UNCHANGED <<model, model_name, target_language, book, total_contents,
                   processed_contents, translated_text, page_idx, content_idx,
                   translation, status, attempts, requests, outcomes, sleeps,
                   logVars, promptVars, otherVars>>

\* make_request returns (text, success) to translate_pdf.
Return(text, success) ==
    /\ translation' = text
    /\ status' = success
    /\ return_log' = Append(return_log, [translation |-> text, status |-> success])
    /\ pc' = "set"

\* A bug: the loop body of translate_pdf catches the exception and goes on to
\* the next unit.
RaiseCaught(message) ==
    /\ error' = Some(message)
    /\ pc' = "for_content"

\* make_request raises: nothing in translate_pdf catches it.
Raise(message) ==
    /\ error' = Some(message)
    /\ pc' = "raised"

\* self.model.make_request(prompt) is entered: attempts = 0
CallMakeRequest ==
    /\ pc = "call"
    /\ model = "OpenAIModel"
    /\ request_log' = Append(request_log, [prompt |-> prompt, unit |-> Here])
    /\ attempts' = 0
    /\ requests' = <<>>
    /\ outcomes' = NoOutcomes
    /\ sleeps' = <<>>
    /\ pc' = "while"
    /\ UNCHANGED <<model, model_name, target_language, book, total_contents,
                   processed_contents, translated_text, page_idx, content_idx,
                   prompt, translation, status, return_log, set_log, progress_log,
                   writer_calls, result, error, promptVars, otherVars>>

\* GLMModel.make_request(prompt): it answers with a (text, success) pair.
GLMMakeRequest ==
    /\ pc = "call"
    /\ model = "GLMModel"
    /\ request_log' = Append(request_log, [prompt |-> prompt, unit |-> Here])
    /\ \E r \in GLMResults : Return(r.translation, r.status)
    /\ UNCHANGED <<model, model_name, target_language, book, total_contents,
                   processed_contents, translated_text, page_idx, content_idx,
                   prompt, attempts, requests, outcomes, sleeps, set_log,
                   progress_log, writer_calls, result, error, promptVars, otherVars>>

\* The API the request goes to: ChatCompletion for "gpt-3.5-turbo", else Completion.
Endpoint(name) == IF name = "gpt-3.5-turbo" THEN "ChatCompletion" ELSE "Completion"

\* attempts += 1
Incremented(n) == n + 1

\* A bug: the retry cap is hit one rate limit early.
RetryAllowedEarly(n) == n < MaxAttempts - 1

\* A bug: the retry cap is tested with <=, so that the third rate limit sleeps.
RetryAllowedLate(n) == n <= MaxAttempts

\* if attempts < 3: sleep and retry, else raise
RetryAllowed(n) == n < MaxAttempts

\* while attempts < 3
LoopRuns(n) == n < MaxAttempts

\* A bug: a failure of any other kind is printed and retried as well.
RetriedWithUnknown(outcome) ==
    outcome \in {"APIConnectionError", "APIError", "Exception"}

\* The failures whose handler only prints: except APIConnectionError, except
\* APIError. The loop goes on after them.
Retried(outcome) == outcome \in {"APIConnectionError", "APIError"}

\* A bug: every failure that is retried counts as an attempt.
AttemptsAfterAnyFailure(outcome, n) ==
    IF outcome \in {"RateLimitError", "APIConnectionError", "APIError"}
    THEN Incremented(n) ELSE n

\* attempts after the handler of a failure: only except RateLimitError has
\* attempts += 1.
AttemptsAfter(outcome, n) ==
    IF outcome = "RateLimitError" THEN Incremented(n) ELSE n

\* One pass of make_request's loop: the test of the while, then one backend
\* request and the handling of its outcome; after the loop, return "", False.
While ==
    /\ pc = "while"
    /\ IF LoopRuns(attempts)
       THEN \E outcome \in Outcomes, response \in Responses :
            /\ Retried(outcome) => ApiErrors(outcomes) < MaxApiErrors
            /\ requests' = Append(requests, Endpoint(model_name))
            /\ outcomes' = [outcomes EXCEPT ![outcome] = @ + 1]
            /\ CASE outcome = "ok" ->
                        \* translation = response...strip(); return translation, True
                        /\ Return(Strip(response), TRUE)
                        /\ UNCHANGED <<attempts, sleeps, error>>
                 [] outcome = "RateLimitError" ->
                        /\ attempts' = AttemptsAfter(outcome, attempts)
                        /\ IF RetryAllowed(attempts')
                           THEN /\ sleeps' = Append(sleeps, BackoffSeconds)
                                /\ UNCHANGED <<pc, error>>
                           ELSE /\ Raise("Rate limit reached. Maximum attempts exceeded.")
                                /\ UNCHANGED sleeps
                        /\ UNCHANGED <<translation, status, return_log>>
                 [] Retried(outcome) ->
                        \* printed, and the loop goes on
                        /\ attempts' = AttemptsAfter(outcome, attempts)
                        /\ UNCHANGED <<pc, sleeps, error, translation, status,
                                       return_log>>
                 [] OTHER ->
                        /\ Raise("unknown error")
                        /\ UNCHANGED <<attempts, sleeps, translation, status,
                                       return_log>>
       ELSE /\ Return(<<>>, FALSE)
            /\ UNCHANGED <<attempts, requests, outcomes, sleeps, error>>
    /\ UNCHANGED <<model, model_name, target_language, book, total_contents,
                   processed_contents, translated_text, page_idx, content_idx,
                   prompt, request_log, set_log, progress_log, writer_calls,
                   result, promptVars, otherVars>>

\* A bug: a unit whose call returned success = False ends the run.
SetTranslationOrHalt ==
    /\ pc = "set"
    /\ IF status
       THEN /\ book' = [book EXCEPT ![page_idx][content_idx] =
                           set_translation(book[page_idx][content_idx], translation, status)]
            /\ set_log' = Append(set_log, Here)
            /\ pc' = "append"
            /\ UNCHANGED error
       ELSE /\ Raise("translation failed")
            /\ UNCHANGED <<book, set_log>>
    /\ attempts' = 0
    /\ requests' = <<>>
    /\ outcomes' = NoOutcomes
    /\ sleeps' = <<>>
    /\ UNCHANGED <<model, model_name, target_language, total_contents,
                   processed_contents, translated_text, page_idx, content_idx,
                   prompt, translation, status, request_log, return_log,
                   progress_log, writer_calls, result, promptVars, otherVars>>

\* A bug: the result is set on the loop's copy of the unit, not in the book.
SetTranslationOnCopy ==
    /\ pc = "set"
    /\ set_log' = Append(set_log, Here)
    /\ pc' = "append"
    /\ attempts' = 0
    /\ requests' = <<>>
    /\ outcomes' = NoOutcomes
    /\ sleeps' = <<>>
    /\ UNCHANGED <<model, model_name, target_language, book, total_contents,
                   processed_contents, translated_text, page_idx, content_idx,
                   prompt, translation, status, request_log, return_log,
                   progress_log, writer_calls, result, error, promptVars, otherVars>>

\* self.book.pages[page_idx].contents[content_idx].set_translation(translation, status)
SetTranslation ==
    /\ pc = "set"
    /\ book' = [book EXCEPT ![page_idx][content_idx] =
                    set_translation(book[page_idx][content_idx], translation, status)]
    /\ set_log' = Append(set_log, Here)
    /\ pc' = "append"
    \* make_request's frame is gone: its locals and what was observed of the call
    /\ attempts' = 0
    /\ requests' = <<>>
    /\ outcomes' = NoOutcomes
    /\ sleeps' = <<>>
    /\ UNCHANGED <<model, model_name, target_language, total_contents,
                   processed_contents, translated_text, page_idx, content_idx,
                   prompt, translation, status, request_log, return_log,
                   progress_log, writer_calls, result, error, promptVars, otherVars>>

\* translated_text.append(translation)
AppendTranslation ==
    /\ pc = "append"
    /\ translated_text' = Appended(translated_text, translation)
    /\ pc' = "count"
    /\ UNCHANGED <<model, model_name, target_language, book, total_contents,
                   processed_contents, page_idx, content_idx, callVars, logVars,
                   promptVars, otherVars>>

\* processed_contents += 1
CountProcessed ==
    /\ pc = "count"
    /\ processed_contents' = Counted(processed_contents)
    /\ pc' = "report"
    /\ UNCHANGED <<model, model_name, target_language, book, total_contents,
                   translated_text, page_idx, content_idx, callVars, logVars,
                   promptVars, otherVars>>

\* LOG.info(f"翻译进度: {processed_contents}/{total_contents}")
ReportProgress ==
    /\ pc = "report"
    /\ progress_log' = Append(progress_log,
                              [processed |-> processed_contents, total |-> total_contents])
    /\ pc' = "for_content"
    /\ UNCHANGED <<model, model_name, target_language, book, total_contents,
                   processed_contents, translated_text, page_idx, content_idx,
                   callVars, request_log, return_log, set_log, writer_calls,
                   result, error, promptVars, otherVars>>

\* self.writer.save_translated_book(self.book, output_file_path, file_format)
SaveBook ==
    /\ pc = "save"
    /\ writer_calls' = Append(writer_calls,
                              [book |-> book,
                               output_file_path |-> OutputPath("book", target_language, "pdf"),
                               file_format |-> "PDF"])
    /\ pc' = "join"
    /\ UNCHANGED <<model, model_name, target_language, book, total_contents,
                   processed_contents, translated_text, page_idx, content_idx,
                   callVars, request_log, return_log, set_log, progress_log,
                   result, error, promptVars, otherVars>>

\* return "\n\n".join(translated_text)
ReturnJoined ==
    /\ pc = "join"
    /\ result' = Some(Joined(translated_text))
    /\ pc' = "done"
    /\ UNCHANGED <<model, model_name, target_language, book, total_contents,
                   processed_contents, translated_text, page_idx, content_idx,
                   callVars, request_log, return_log, set_log, progress_log,
                   writer_calls, error, promptVars, otherVars>>

Next ==
    \/ Parse
    \/ ForPage
    \/ ForContent
    \/ BuildPrompt
    \/ CallMakeRequest
    \/ GLMMakeRequest
    \/ While
    \/ SetTranslation
    \/ AppendTranslation
    \/ CountProcessed
    \/ ReportProgress
    \/ SaveBook
    \/ ReturnJoined

Spec == Init /\ [][Next]_vars


\* --------------------------------------------------- translate_prompt alone
\* Strings of at most n characters of a set.
StringsUpTo(chars, n) == UNION {[1..k -> chars] : k \in 0..n}

\* The target languages translate_prompt is given: the three of the mapping,
\* one that is not in it, a proper prefix of a key, a key with a space after
\* it, and the empty string.
PromptLanguages ==
    {Chinese, French, Japanese, German, <<"U4E2D">>, Chinese \o <<" ">>, <<>>}

\* The content units translate_prompt is given.
PromptContents ==
    {TextContent(t) : t \in StringsUpTo({"a", " "}, MaxLen)}
        \cup {TableContent(rows) : rows \in StringsUpTo({<<"a">>, <<"b", "c">>}, MaxLen)}

\* A model, a content unit and a target language; translate_pdf is not called.
InitPrompt ==
    /\ model = "OpenAIModel"
    /\ model_name = "gpt-3.5-turbo"
    /\ pc = "idle"
    /\ target_language = Chinese
    /\ book = <<>>
    /\ total_contents = 0
    /\ processed_contents = 0
    /\ translated_text = <<>>
    /\ page_idx = 0
    /\ content_idx = 0
    /\ prompt = <<>>
    /\ translation = <<>>
    /\ status = FALSE
    /\ attempts = 0
    /\ requests = <<>>
    /\ outcomes = NoOutcomes
    /\ sleeps = <<>>
    /\ request_log = <<>>
    /\ return_log = <<>>
    /\ set_log = <<>>
    /\ progress_log = <<>>
    /\ writer_calls = <<>>
    /\ result = None
    /\ error = None
    /\ p_content \in PromptContents
    /\ p_language \in PromptLanguages
    /\ p_prompt = None
    /\ WindowBuilt
    /\ ChatbotIdle
    /\ ChainIdle
    /\ NewsIdle

\* model.translate_prompt(content, target_language)
TranslatePrompt ==
    /\ p_prompt = None
    /\ p_prompt' = Some(translate_prompt(p_content, p_language))
    /\ UNCHANGED <<runVars, callVars, logVars, p_content, p_language, otherVars>>

NextPrompt == TranslatePrompt

SpecPrompt == InitPrompt /\ [][NextPrompt]_vars

\* ------------------------------------------------------------------ gui.py
\* What the user can have in a line edit: nothing or something.
PdfPaths == {"", "book.pdf"}
ApiKeys == {"", "sk-key"}
GlmUrls == {"", "http://glm"}
\* self.model_type_combo.addItems(["OpenAIModel", "GLMModel"])
ModelTypes == {"OpenAIModel", "GLMModel"}

\* What the backend does to the requests of one run: it answers them all, or
\* it fails one of them fatally (C3, C12).
BackendBehaviours == {"answers", "fails"}

\* def translate_pdf(self, pdf_file_path, file_format, target_language,
\*                   output_file_path, pages)
TranslatePdfParameters ==
    {"pdf_file_path", "file_format", "target_language", "output_file_path", "pages"}

\* The keyword arguments of the call of translate_pdf in TranslatorThread.run.
RunKeywords == {"progress_callback"}

\* Python binds a call's keyword arguments to parameters of these names; a
\* keyword that names no parameter is a TypeError, raised before the body runs.
Binds(keywords, parameters) == keywords \subseteq parameters

\* A bug: the GLM URL is not validated.
ValidateWithoutUrl(pdf_path, model_type, api_key, glm_url) ==
    IF pdf_path = "" THEN Some("Please select a PDF file")
    ELSE IF model_type = "OpenAIModel" /\ api_key = ""
         THEN Some("Please enter OpenAI API key")
         ELSE None

\* The validation of start_translation: the warning it ends with, or None.
Validate(pdf_path, model_type, api_key, glm_url) ==
    IF pdf_path = "" THEN Some("Please select a PDF file")
    ELSE IF model_type = "OpenAIModel"
         THEN IF api_key = "" THEN Some("Please enter OpenAI API key") ELSE None
         ELSE IF glm_url = "" THEN Some("Please enter GLM URL") ELSE None

\* A bug: translation_error does not enable the button again.
ButtonAfterFinishedOnly(signal, enabled) ==
    IF signal = "finished" THEN TRUE ELSE enabled

\* translate_btn after the handler of a signal: translation_finished and
\* translation_error call setEnabled(True), update_status leaves it alone.
ButtonAfter(signal, enabled) ==
    IF signal \in {"finished", "error"} THEN TRUE ELSE enabled

\* browse_pdf: the file dialog returns a file name, or "" when it is cancelled.
browse_pdf ==
    /\ \E file_name \in PdfPaths :
        pdf_path_input' = IF file_name # "" THEN file_name ELSE pdf_path_input
    /\ UNCHANGED <<model_type_combo, api_key_input, glm_url_input, windowVars,
                   threadVars>>
    /\ UNCHANGED <<runVars, callVars, logVars, promptVars, chatVars, chainVars, newsVars>>

\* The user edits one of the line edits.
EditText ==
    /\ \/ \E text \in PdfPaths :
            /\ pdf_path_input' = text
            /\ UNCHANGED <<api_key_input, glm_url_input>>
       \/ \E text \in ApiKeys :
            /\ api_key_input' = text
            /\ UNCHANGED <<pdf_path_input, glm_url_input>>
       \/ \E text \in GlmUrls :
            /\ glm_url_input' = text
            /\ UNCHANGED <<pdf_path_input, api_key_input>>
    /\ UNCHANGED <<model_type_combo, windowVars, threadVars>>
    /\ UNCHANGED <<runVars, callVars, logVars, promptVars, chatVars, chainVars, newsVars>>

\* The user picks the other model type: on_model_type_changed shows its group
\* of settings and hides the other.
on_model_type_changed ==
    /\ \E model_type \in ModelTypes \ {model_type_combo} :
        model_type_combo' = model_type
    /\ UNCHANGED <<pdf_path_input, api_key_input, glm_url_input, windowVars,
                   threadVars>>
    /\ UNCHANGED <<runVars, callVars, logVars, promptVars, chatVars, chainVars, newsVars>>

\* A TranslatorThread after __init__ and start().
Worker(model_type, pdf_path, backend) ==
    [pc |-> "started", model |-> model_type, pdf_path |-> pdf_path,
     backend |-> backend, value |-> "", handled |-> FALSE]

\* start_translation, the slot of translate_btn.clicked: a disabled button
\* emits no click.
start_translation ==
    /\ translate_btn
    /\ clicks < MaxClicks
    /\ clicks' = clicks + 1
    /\ status_text' = <<>>
    /\ translation_text' = ""
    /\ LET warning == Validate(pdf_path_input, model_type_combo, api_key_input,
                               glm_url_input)
       IN IF warning # None
          THEN /\ dialogs' = Append(dialogs, [kind |-> "warning", text |-> warning[1]])
               /\ UNCHANGED <<translate_btn, progress_bar, workers>>
          ELSE /\ translate_btn' = FALSE
               /\ progress_bar' = [maximum |-> 0, value |-> 0]
               /\ \E backend \in BackendBehaviours :
                    workers' = Append(workers,
                        Worker(model_type_combo, pdf_path_input, backend))
               /\ UNCHANGED dialogs
    /\ UNCHANGED <<inputVars, events, emitted>>
    /\ UNCHANGED <<runVars, callVars, logVars, promptVars, chatVars, chainVars, newsVars>>

\* TranslatorThread.run, its try block: PDFTranslator(self.model), then the
\* call of translate_pdf. When the call binds, the pipeline runs and returns
\* the translated text or raises; when it does not, TypeError is raised. The
\* except clause catches either exception.
run ==
    /\ \E w \in 1..Len(workers) :
        /\ workers[w].pc = "started"
        /\ workers' = [workers EXCEPT ![w] =
              IF Binds(RunKeywords, TranslatePdfParameters)
              THEN IF @.backend = "answers"
                   THEN [@ EXCEPT !.pc = "returned", !.value = "translated text"]
                   ELSE [@ EXCEPT !.pc = "caught", !.value = "fatal error"]
              ELSE [@ EXCEPT !.pc = "caught", !.value = "TypeError"]]
    /\ UNCHANGED <<inputVars, windowVars, events, emitted, clicks>>
    /\ UNCHANGED <<runVars, callVars, logVars, promptVars, chatVars, chainVars, newsVars>>

\* TranslatorThread.run, its last statement: self.finished.emit(translated_text)
\* or self.error.emit(str(e)); the signal is queued for the window's thread and
\* run returns.
run_emit ==
    /\ \E w \in 1..Len(workers) :
        /\ workers[w].pc \in {"returned", "caught"}
        /\ LET signal == [signal |-> IF workers[w].pc = "returned"
                                     THEN "finished" ELSE "error",
                          arg |-> workers[w].value, worker |-> w]
           IN /\ events' = Append(events, signal)
              /\ emitted' = Append(emitted, signal)
        /\ workers' = [workers EXCEPT ![w].pc = "exited"]
    /\ UNCHANGED <<inputVars, windowVars, clicks>>
    /\ UNCHANGED <<runVars, callVars, logVars, promptVars, chatVars, chainVars, newsVars>>

\* The window's thread takes the next queued signal and calls the slot that
\* start_translation connected to it: update_status, translation_finished or
\* translation_error.
HandleSignal ==
    /\ events # <<>>
    /\ LET e == Head(events)
       IN /\ events' = Tail(events)
          /\ translate_btn' = ButtonAfter(e.signal, translate_btn)
          /\ CASE e.signal = "progress" ->
                    /\ status_text' = Append(status_text, e.arg)
                    /\ UNCHANGED <<progress_bar, translation_text, dialogs, workers>>
               [] e.signal = "finished" ->
                    /\ progress_bar' = [maximum |-> 100, value |-> 100]
                    /\ translation_text' = e.arg
                    /\ dialogs' = Append(dialogs,
                          [kind |-> "information", text |-> "Translation completed!"])
                    /\ workers' = [workers EXCEPT ![e.worker].handled = TRUE]
                    /\ UNCHANGED status_text
               [] e.signal = "error" ->
                    /\ progress_bar' = [maximum |-> 100, value |-> 0]
                    /\ dialogs' = Append(dialogs,
                          [kind |-> "critical", text |-> e.arg])
                    /\ workers' = [workers EXCEPT ![e.worker].handled = TRUE]
                    /\ UNCHANGED <<status_text, translation_text>>
    /\ UNCHANGED <<inputVars, emitted, clicks>>
    /\ UNCHANGED <<runVars, callVars, logVars, promptVars, chatVars, chainVars, newsVars>>

InitGui == TranslatorIdle /\ WindowBuilt /\ ChatbotIdle /\ ChainIdle /\ NewsIdle

NextGui ==
    \/ browse_pdf
    \/ EditText
    \/ on_model_type_changed
    \/ start_translation
    \/ run
    \/ run_emit
    \/ HandleSignal

SpecGui == InitGui /\ [][NextGui]_vars

\* -------------------------------------------------------------- chatbot.py
\* from langgraph.graph import START, END
START == "__start__"
END == "__end__"

\* tools = [TavilySearchResults(max_results=2)]: the names in tools_by_name.
ToolNames == {"tavily_search_results_json"}

\* What the search tool can give back.
ToolResults == {"found", "nothing"}

\* json.dumps of a tool result: the string in double quotes.
json_dumps(tool_result) ==
    IF tool_result = "found" THEN "\"found\"" ELSE "\"nothing\""

\* The i-th tool call of the AI message of a turn.
ToolCall(turn, i) ==
    [name |-> "tavily_search_results_json", args |-> <<"query", turn, i>>,
     id |-> <<"call", turn, i>>]

\* ("user", user_input) as add_messages keeps it.
HumanMessage ==
    [type |-> "human", content |-> "hello", tool_calls |-> <<>>, name |-> "",
     tool_call_id |-> <<>>]

\* What llm_with_tools.invoke returns in a turn: an AI message with n tool calls.
AIMessage(turn, n) ==
    [type |-> "ai", content |-> "", tool_calls |-> [i \in 1..n |-> ToolCall(turn, i)],
     name |-> "", tool_call_id |-> <<>>]

\* ToolMessage(content=..., name=..., tool_call_id=...)
ToolMessage(content, name, tool_call_id) ==
    [type |-> "tool", content |-> content, tool_calls |-> <<>>, name |-> name,
     tool_call_id |-> tool_call_id]

\* hasattr(ai_message, "tool_calls"): only AI messages have the attribute.
HasToolCalls(msg) == msg.type = "ai"

\* A state that is a dict with the key "messages", a dict without it, a list.
DictState(messages) == [form |-> "dict", has_messages |-> TRUE, messages |-> messages]
NoKeyState == [form |-> "dict", has_messages |-> FALSE, messages |-> <<>>]
ListState(messages) == [form |-> "list", has_messages |-> TRUE, messages |-> messages]

\* state.get("messages", [])
Get(state) == IF state.has_messages THEN state.messages ELSE <<>>

\* add_messages: the new messages are appended to the list.
add_messages(left, right) == left \o right

\* A bug: messages[0] where messages[-1] belongs.
FirstOf(messages) == messages[1]

\* messages[-1]
LastOf(messages) == messages[Len(messages)]

\* A bug: the test is len(ai_message.tool_calls) >= 0.
route_tools_from_zero(state) ==
    LET route(ai_message) ==
            IF HasToolCalls(ai_message) /\ Len(ai_message.tool_calls) >= 0
            THEN "tools" ELSE END
    IN IF state.form = "list"
       THEN IF state.messages = <<>> THEN "IndexError" ELSE route(LastOf(state.messages))
       ELSE IF Get(state) # <<>> THEN route(LastOf(Get(state))) ELSE "ValueError"

\* route_tools: "tools", "__end__", or the exception it raises.
route_tools(state) ==
    LET route(ai_message) ==
            IF HasToolCalls(ai_message) /\ Len(ai_message.tool_calls) > 0
            THEN "tools" ELSE END
    IN IF state.form = "list"
       THEN IF state.messages = <<>> THEN "IndexError" ELSE route(LastOf(state.messages))
       ELSE IF Get(state) # <<>> THEN route(LastOf(Get(state))) ELSE "ValueError"

\* add_edge(START, "chatbot"), add_edge("chatbot", END), add_edge("tools", "chatbot")
Edges == {<<START, "chatbot">>, <<"chatbot", END>>, <<"tools", "chatbot">>}

\* The path map of add_conditional_edges("chatbot", route_tools, ...).
PathMap == [branch \in {"tools", END} |-> branch]

\* The node that runs after node n, whose conditional edge (if it has one) took
\* the given branch: the targets of its edges; an edge to END starts no node,
\* and the run is at its end when no node is to be started.
Successor(n, branch) ==
    LET targets == ({e[2] : e \in {d \in Edges : d[1] = n}}
                        \cup (IF branch \in DOMAIN PathMap THEN {PathMap[branch]} ELSE {}))
                    \ {END}
    IN IF targets = {} THEN END ELSE CHOOSE t \in targets : TRUE

\* Message lists for a call of route_tools or of the tool node on its own.
Histories ==
    {<<>>, <<HumanMessage>>}
        \cup {<<HumanMessage, AIMessage(1, n)>> : n \in 0..MaxToolCalls}
        \cup {<<HumanMessage, AIMessage(1, 1),
                ToolMessage(json_dumps("found"), ToolCall(1, 1).name, ToolCall(1, 1).id),
                AIMessage(2, n)>> : n \in 0..MaxToolCalls}
        \cup {<<HumanMessage, AIMessage(1, 1),
                ToolMessage(json_dumps("found"), ToolCall(1, 1).name, ToolCall(1, 1).id)>>}

RouteInputs ==
    {NoKeyState} \cup {DictState(h) : h \in Histories}
                 \cup {ListState(h) : h \in Histories}

\* The tool node is given a dict; a last message is an AI message.
ToolInputs ==
    {NoKeyState}
        \cup {DictState(h) : h \in {g \in Histories : g = <<>> \/ g[Len(g)].type = "ai"}}

\* graph.stream({"messages": [("user", user_input)]}): the run starts at START.
Stream ==
    /\ driver = "graph"
    /\ node = START
    /\ graph_state' = DictState(add_messages(<<>>, <<HumanMessage>>))
    /\ node' = Successor(START, "")
    /\ UNCHANGED <<driver, trace, routed, node_message, outputs, invoked, turns,
                   raised>>
    /\ UNCHANGED <<runVars, callVars, logVars, promptVars, guiVars, chainVars, newsVars>>

\* The node chatbot: the model's answer is added to the messages; then the
\* conditional edge is to be evaluated.
chatbot ==
    /\ node = "chatbot"
    /\ turns < MaxTurns
    /\ turns' = turns + 1
    /\ \E n \in 0..MaxToolCalls :
        graph_state' = DictState(add_messages(graph_state.messages,
                                              <<AIMessage(turns', n)>>))
    /\ trace' = Append(trace, "chatbot")
    /\ node' = "route_tools"
    /\ UNCHANGED <<driver, routed, node_message, outputs, invoked, raised>>
    /\ UNCHANGED <<runVars, callVars, logVars, promptVars, guiVars, chainVars, newsVars>>

\* route_tools is called on the state: by the graph after chatbot, or on its own.
RouteTools ==
    /\ node = "route_tools"
    /\ LET branch == route_tools(graph_state)
       IN /\ routed' = Some(branch)
          /\ IF branch \in {"ValueError", "IndexError"}
             THEN /\ raised' = Some(branch)
                  /\ node' = "raised"
             ELSE /\ node' = IF driver = "graph" THEN Successor("chatbot", branch)
                                                 ELSE "returned"
                  /\ UNCHANGED raised
    /\ UNCHANGED <<driver, graph_state, trace, node_message, outputs, invoked, turns>>
    /\ UNCHANGED <<runVars, callVars, logVars, promptVars, guiVars, chainVars, newsVars>>

\* BasicToolNode.__call__ is entered: the last message, or ValueError.
ToolNodeCall ==
    /\ node = "tools"
    /\ trace' = Append(trace, "tools")
    /\ invoked' = <<>>
    /\ outputs' = <<>>
    /\ IF Get(graph_state) # <<>>
       THEN /\ node_message' = Some(LastOf(Get(graph_state)))
            /\ node' = "for_tool_call"
            /\ UNCHANGED raised
       ELSE /\ raised' = Some("ValueError")
            /\ node' = "raised"
            /\ UNCHANGED node_message
    /\ UNCHANGED <<driver, graph_state, routed, turns>>
    /\ UNCHANGED <<runVars, callVars, logVars, promptVars, guiVars, chainVars, newsVars>>

\* for tool_call in message.tool_calls: the tool of that name is invoked with
\* the arguments of the call and its result is appended as a ToolMessage.
ToolInvoke ==
    /\ node = "for_tool_call"
    /\ Len(outputs) < Len(node_message[1].tool_calls)
    /\ LET tool_call == node_message[1].tool_calls[Len(outputs) + 1]
       IN IF tool_call.name \in ToolNames
          THEN \E tool_result \in ToolResults :
                /\ invoked' = Append(invoked, [name |-> tool_call.name,
                                               args |-> tool_call.args,
                                               tool_result |-> tool_result])
                /\ outputs' = Append(outputs,
                       ToolMessage(json_dumps(tool_result), tool_call.name,
                                   tool_call.id))
                /\ UNCHANGED <<node, raised>>
          ELSE /\ raised' = Some("KeyError")
               /\ node' = "raised"
               /\ UNCHANGED <<invoked, outputs>>
    /\ UNCHANGED <<driver, graph_state, trace, routed, node_message, turns>>
    /\ UNCHANGED <<runVars, callVars, logVars, promptVars, guiVars, chainVars, newsVars>>

\* return {"messages": outputs}: in the graph the outputs are added to the
\* messages and the edge from tools is followed.
ToolNodeReturn ==
    /\ node = "for_tool_call"
    /\ Len(outputs) = Len(node_message[1].tool_calls)
    /\ IF driver = "graph"
       THEN /\ graph_state' = DictState(add_messages(graph_state.messages, outputs))
            /\ node' = Successor("tools", "")
       ELSE /\ node' = "returned"
            /\ UNCHANGED graph_state
    /\ UNCHANGED <<driver, trace, routed, node_message, outputs, invoked, turns,
                   raised>>
    /\ UNCHANGED <<runVars, callVars, logVars, promptVars, guiVars, chainVars, newsVars>>

\* One run of the graph on a user input, or one call of route_tools or of the
\* tool node on a state of its own.
InitChat ==
    /\ TranslatorIdle
    /\ WindowBuilt
    /\ ChainIdle
    /\ NewsIdle
    /\ driver \in {"graph", "route_tools", "BasicToolNode"}
    /\ graph_state \in (CASE driver = "graph" -> {DictState(<<>>)}
                          [] driver = "route_tools" -> RouteInputs
                          [] driver = "BasicToolNode" -> ToolInputs)
    /\ node = (CASE driver = "graph" -> START
                 [] driver = "route_tools" -> "route_tools"
                 [] driver = "BasicToolNode" -> "tools")
    /\ trace = <<>>
    /\ routed = None
    /\ node_message = None
    /\ outputs = <<>>
    /\ invoked = <<>>
    /\ turns = 0
    /\ raised = None

NextChat ==
    \/ Stream
    \/ chatbot
    \/ RouteTools
    \/ ToolNodeCall
    \/ ToolInvoke
    \/ ToolNodeReturn

SpecChat == InitChat /\ [][NextChat]_vars

\* ----------------------------------------------------- translation_chain.py
\* The arguments of TranslationChain.run.
ChainTexts == {"", "hello", "good morning"}
ChainSources == {"English", "Chinese"}
ChainTargets == {"Chinese", "English", "French"}

\* What self.chain.run gives back when it returns.
ChainValues == {"", "translated"}

\* The exceptions self.chain.run can raise: all of them are Exceptions.
ChainExceptions == {"RateLimitError", "APIConnectionError", "ValueError"}

ChainOutcomes ==
    {[kind |-> "value", value |-> v] : v \in ChainValues}
        \cup {[kind |-> "exception", value |-> e] : e \in ChainExceptions}

\* A bug: only the errors of the API are caught.
CaughtApiOnly(exception) == exception \in {"RateLimitError", "APIConnectionError"}

\* except Exception as e
Caught(exception) == exception \in ChainExceptions

\* run is entered: result = ""
ChainRun ==
    /\ chain_pc = "run"
    /\ chain_result' = ""
    /\ chain_pc' = "try"
    /\ UNCHANGED <<chain_text, chain_source, chain_target, chain_outcome, chain_log,
                   chain_returned, chain_raised>>
    /\ UNCHANGED <<runVars, callVars, logVars, promptVars, guiVars, chatVars, newsVars>>

\* try: result = self.chain.run({...}); except Exception: LOG.error(...) and
\* return result, False
ChainCall ==
    /\ chain_pc = "try"
    /\ \E outcome \in ChainOutcomes :
        /\ chain_outcome' = Some(outcome)
        /\ IF outcome.kind = "value"
           THEN /\ chain_result' = outcome.value
                /\ chain_pc' = "return"
                /\ UNCHANGED <<chain_log, chain_returned, chain_raised>>
           ELSE IF Caught(outcome.value)
                THEN /\ chain_log' = Append(chain_log, outcome.value)
                     /\ chain_returned' = Some(<<chain_result, FALSE>>)
                     /\ chain_pc' = "done"
                     /\ UNCHANGED <<chain_result, chain_raised>>
                ELSE /\ chain_raised' = Some(outcome.value)
                     /\ chain_pc' = "raised"
                     /\ UNCHANGED <<chain_result, chain_log, chain_returned>>
    /\ UNCHANGED <<chain_text, chain_source, chain_target>>
    /\ UNCHANGED <<runVars, callVars, logVars, promptVars, guiVars, chatVars, newsVars>>

\* return result, True
ChainReturn ==
    /\ chain_pc = "return"
    /\ chain_returned' = Some(<<chain_result, TRUE>>)
    /\ chain_pc' = "done"
    /\ UNCHANGED <<chain_text, chain_source, chain_target, chain_result, chain_outcome,
                   chain_log, chain_raised>>
    /\ UNCHANGED <<runVars, callVars, logVars, promptVars, guiVars, chatVars, newsVars>>

\* A call of run on a text and two languages.
InitChain ==
    /\ TranslatorIdle
    /\ WindowBuilt
    /\ ChatbotIdle
    /\ NewsIdle
    /\ chain_text \in ChainTexts
    /\ chain_source \in ChainSources
    /\ chain_target \in ChainTargets
    /\ chain_pc = "run"
    /\ chain_result = ""
    /\ chain_outcome = None
    /\ chain_log = <<>>
    /\ chain_returned = None
    /\ chain_raised = None

NextChain ==
    \/ ChainRun
    \/ ChainCall
    \/ ChainReturn

SpecChain == InitChain /\ [][NextChain]_vars

\* ---------------------------------------------------------------- autogpt.py
\* The letters str.lower() changes, and what it changes them to.
UpperCase ==
    <<"A", "B", "C", "D", "E", "F", "G", "H", "I", "J", "K", "L", "M", "N", "O", "P",
      "Q", "R", "S", "T", "U", "V", "W", "X", "Y", "Z">>
LowerCase ==
    <<"a", "b", "c", "d", "e", "f", "g", "h", "i", "j", "k", "l", "m", "n", "o", "p",
      "q", "r", "s", "t", "u", "v", "w", "x", "y", "z">>

\* url.lower(): every upper-case letter becomes its lower-case letter.
lower(url) ==
    [i \in 1..Len(url) |->
        IF \E k \in 1..Len(UpperCase) : UpperCase[k] = url[i]
        THEN LowerCase[CHOOSE k \in 1..Len(UpperCase) : UpperCase[k] = url[i]]
        ELSE url[i]]

\* part in whole, for two strings.
Contains(part, whole) ==
    \E i \in 0..(Len(whole) - Len(part)) : SubSeq(whole, i + 1, i + Len(part)) = part

\* chinese_news_domains, in the order of their priority.
chinese_news_domains ==
    <<
      <<"p", "e", "o", "p", "l", "e", ".", "c", "o", "m", ".", "c", "n">>,
      <<"x", "i", "n", "h", "u", "a", "n", "e", "t", ".", "c", "o", "m">>,
      <<"c", "h", "i", "n", "a", "d", "a", "i", "l", "y", ".", "c", "o", "m", ".",
        "c", "n">>,
      <<"t", "h", "e", "p", "a", "p", "e", "r", ".", "c", "n">>,
      <<"q", "q", ".", "c", "o", "m">>,
      <<"s", "i", "n", "a", ".", "c", "o", "m", ".", "c", "n">>,
      <<"1", "6", "3", ".", "c", "o", "m">>,
      <<"s", "o", "h", "u", ".", "c", "o", "m">>,
      <<"i", "f", "e", "n", "g", ".", "c", "o", "m">>,
      <<"c", "a", "i", "x", "i", "n", ".", "c", "o", "m">>,
      <<"b", "j", "n", "e", "w", "s", ".", "c", "o", "m", ".", "c", "n">>,
      <<"y", "i", "c", "a", "i", ".", "c", "o", "m">>,
      <<"h", "u", "a", "n", "q", "i", "u", ".", "c", "o", "m">>
    >>

\* A page of no listed site.
UrlElsewhere ==
    <<"h", "t", "t", "p", ":", "/", "/", "a", ".", "i", "o", "/", "1">>

\* Another page of no listed site.
UrlOther ==
    <<"h", "t", "t", "p", ":", "/", "/", "b", ".", "i", "o", "/", "2">>

\* A page of qq.com.
UrlQq ==
    <<"h", "t", "t", "p", ":", "/", "/", "q", "q", ".", "c", "o", "m", "/", "3">>

\* A page of sina.com.cn, in capitals.
UrlSinaUpper ==
    <<"H", "T", "T", "P", ":", "/", "/", "S", "I", "N", "A", ".", "C", "O", "M", ".",
      "C", "N", "/", "4">>

\* A page of people.com.cn.
UrlPeople ==
    <<"h", "t", "t", "p", ":", "/", "/", "p", "e", "o", "p", "l", "e", ".", "c", "o",
      "m", ".", "c", "n", "/", "5">>

\* A page of 163.com with sohu.com in its path.
UrlSohuOn163 ==
    <<"h", "t", "t", "p", ":", "/", "/", "1", "6", "3", ".", "c", "o", "m", "/", "s",
      "o", "h", "u", ".", "c", "o", "m">>

\* The URLs a search can have found.
UrlPool == {UrlElsewhere, UrlOther, UrlQq, UrlSinaUpper, UrlPeople, UrlSohuOn163}

\* The lists of URLs _select_best_chinese_news_url is called on: process_news_summary
\* calls it on a list that is not empty.
UrlLists == UNION {[1..k -> UrlPool] : k \in 1..MaxUrls}

\* A bug: the loops are nested the other way round, so that the position of a
\* URL comes before the priority of its domain.
select_first_chinese_news_url(urls) ==
    LET hits == {u \in 1..Len(urls) :
                    \E d \in 1..Len(chinese_news_domains) :
                        Contains(chinese_news_domains[d], lower(urls[u]))}
    IN IF hits = {} THEN urls[1]
       ELSE urls[CHOOSE u \in hits : \A o \in hits : u <= o]

\* for domain in chinese_news_domains: for url in urls: the first pair with
\* domain in url.lower() ends the search with that url; without such a pair,
\* urls[0].
_select_best_chinese_news_url(urls) ==
    LET hits == {h \in (1..Len(chinese_news_domains)) \X (1..Len(urls)) :
                    Contains(chinese_news_domains[h[1]], lower(urls[h[2]]))}
    IN IF hits = {} THEN urls[1]
       ELSE LET first == CHOOSE h \in hits :
                            \A o \in hits :
                                h[1] < o[1] \/ (h[1] = o[1] /\ h[2] <= o[2])
            IN urls[first[2]]

\* selected_url = self._select_best_chinese_news_url(urls)
SelectBest ==
    /\ selected_url = None
    /\ selected_url' = Some(_select_best_chinese_news_url(news_urls))
    /\ UNCHANGED news_urls
    /\ UNCHANGED <<runVars, callVars, logVars, promptVars, guiVars, chatVars, chainVars>>

\* A call of _select_best_chinese_news_url on a list of URLs.
InitNews ==
    /\ TranslatorIdle
    /\ WindowBuilt
    /\ ChatbotIdle
    /\ ChainIdle
    /\ news_urls \in UrlLists
    /\ selected_url = None

NextNews == SelectBest

SpecNews == InitNews /\ [][NextNews]_vars

\* ------------------------------------------------------------------ claims
\* The units of a document in traversal order: pages in order, the contents of
\* a page in order.  Each is <<page, content>>.
RECURSIVE UnitsFrom(_, _)
UnitsFrom(pages, p) ==
    IF p > Len(pages) THEN <<>>
    ELSE [c \in 1..Len(pages[p]) |-> <<p, c>>] \o UnitsFrom(pages, p + 1)

Units == UnitsFrom(book, 1)

UnitAt(k) == book[Units[k][1]][Units[k][2]]

RateLimits == outcomes["RateLimitError"]

\* Only rate limits so far in this call of make_request, or no failure at all.
OnlyRateLimits ==
    /\ ApiErrors(outcomes) = 0
    /\ outcomes["Exception"] = 0

\* C1: in a run of translate_pdf, make_request is called on the content units
\* in traversal order (pages in order, contents of a page in order), each call
\* with the prompt of its unit, and the k-th accumulated translation is what
\* the k-th call returned; a run that ends without a fatal error has called it
\* on every unit.
C1_OrderPreserved ==
    /\ Len(request_log) <= Len(Units)
    /\ \A k \in 1..Len(request_log) :
        /\ request_log[k].unit = Units[k]
        /\ request_log[k].prompt =
               translate_prompt([UnitAt(k) EXCEPT !.translation = None, !.status = FALSE],
                                target_language)
    /\ Len(return_log) \in {Len(request_log), Len(request_log) - 1}
    /\ Len(translated_text) <= Len(return_log)
    /\ \A k \in 1..Len(translated_text) : translated_text[k] = return_log[k].translation
    /\ pc \in {"save", "join", "done"} =>
        /\ Len(request_log) = Len(Units)
        /\ Len(translated_text) = Len(Units)

\* A finished run over two pages and three units whose translations differ.
C1_Witness ==
    /\ pc = "done"
    /\ Len(book) = 2
    /\ Len(book[1]) = 1
    /\ Len(translated_text) = 3
    /\ translated_text[1] # translated_text[2]
    /\ translated_text[2] = translated_text[3]

\* C2: in OpenAIModel.make_request, while the backend has only reported rate
\* limits, k of them with k in {0,1,2}, the call has neither raised nor given
\* up: it has slept k times 60 and made k requests and goes on to request k+1,
\* and when that one succeeds it returns (translation, True) after exactly k
\* sleeps of 60 and k+1 requests.
C2_RetryThenSuccess ==
    (model = "OpenAIModel" /\ pc \in {"while", "set", "raised"}
        /\ OnlyRateLimits /\ RateLimits \in 0..2) =>
        /\ error = None
        /\ sleeps = [i \in 1..RateLimits |-> 60]
        /\ IF outcomes["ok"] = 1
           THEN /\ pc = "set"
                /\ status = TRUE
                /\ Len(requests) = RateLimits + 1
                /\ return_log[Len(return_log)] =
                       [translation |-> translation, status |-> TRUE]
           ELSE /\ pc = "while"
                /\ Len(requests) = RateLimits
                /\ ENABLED While

\* Rate-limited twice, then a success: returned True after two sleeps.
C2_Witness ==
    /\ model = "OpenAIModel"
    /\ pc = "set"
    /\ OnlyRateLimits
    /\ RateLimits = 2
    /\ outcomes["ok"] = 1
    /\ status = TRUE
    /\ sleeps = <<60, 60>>
    /\ Len(requests) = 3

FatalRaised ==
    /\ model = "OpenAIModel"
    /\ RateLimits = 3 \/ outcomes["Exception"] = 1

\* The k-th unit carries what the k-th call of make_request returned.
CarriesResult(k) ==
    /\ UnitAt(k).translation = Some(return_log[k].translation)
    /\ UnitAt(k).status = return_log[k].status

\* C4: a unit whose make_request returned success = False does not halt the
\* run of translate_pdf: no exception comes of it, the unit is recorded with
\* (translation, False) and its text is appended at its position, the run goes
\* on until every unit is processed and the writer is invoked, and every unit
\* carries the success flag its own call returned.
C4_PartialFailureTolerated ==
    /\ error # None => FatalRaised
    /\ Len(set_log) <= Len(return_log)
    /\ \A k \in 1..Len(set_log) : CarriesResult(k)
    /\ \A k \in 1..Len(translated_text) : translated_text[k] = return_log[k].translation
    /\ pc \notin {"done", "raised"} => ENABLED Next
    /\ pc = "done" =>
        /\ error = None
        /\ Len(set_log) = Len(Units)
        /\ Len(translated_text) = Len(Units)
        /\ Len(writer_calls) = 1

\* A finished run over three units whose second call returned ("", False).
C4_Witness ==
    /\ pc = "done"
    /\ Len(Units) = 3
    /\ UnitAt(1).status = TRUE
    /\ UnitAt(2).status = FALSE
    /\ UnitAt(2).translation = Some(<<>>)
    /\ UnitAt(3).status = TRUE
    /\ translated_text = << <<"x">>, <<>>, <<"x">> >>
    /\ Len(writer_calls) = 1

\* The units set so far are the first ones in traversal order, once each, and
\* no other unit has a translation.
C5_SetInOrder ==
    /\ Len(set_log) <= Len(Units)
    /\ set_log = SubSeq(Units, 1, Len(set_log))
    /\ \A k \in 1..Len(Units) : (UnitAt(k).translation # None) <=> k <= Len(set_log)
    /\ pc \in {"save", "join", "done"} => set_log = Units

\* A unit that has a translation keeps it, and its status, in every step.
C5_Terminal ==
    \A k \in 1..Len(Units) :
        UnitAt(k).translation # None =>
            book'[Units[k][1]][Units[k][2]] = UnitAt(k)

\* C5: in a run of translate_pdf every content unit goes from untranslated to
\* translated (ok or failed) at most once: set_translation is called once per
\* unit, in traversal order, a unit has no translation until the driver
\* reaches it, and a unit that has been set is never set again or reset.
C5_SetOnce == []C5_SetInOrder /\ [][C5_Terminal]_vars

\* A finished run that set three units, one of them failed.
C5_Witness ==
    /\ pc = "done"
    /\ Len(set_log) = 3
    /\ \E k \in 1..3 : UnitAt(k).translation # None /\ ~UnitAt(k).status
    /\ \E k \in 1..3 : UnitAt(k).translation # None /\ UnitAt(k).status

\* The translations of the units of the book, in traversal order.
DocTranslations == [k \in 1..Len(Units) |-> UnitAt(k).translation[1]]

RECURSIVE TotalLen(_)
TotalLen(texts) == IF texts = <<>> THEN 0 ELSE Len(Head(texts)) + TotalLen(Tail(texts))

\* Where the k-th text starts in the texts joined by a separator of length n.
Offset(texts, n, k) == TotalLen(SubSeq(texts, 1, k - 1)) + n * (k - 1)

\* s is the texts in order with sep between every two consecutive ones.
JoinedBy(sep, texts, s) ==
    /\ Len(s) = TotalLen(texts) + (IF texts = <<>> THEN 0 ELSE Len(sep) * (Len(texts) - 1))
    /\ \A k \in 1..Len(texts) :
        LET from == Offset(texts, Len(sep), k)
        IN  /\ SubSeq(s, from + 1, from + Len(texts[k])) = texts[k]
            /\ k < Len(texts) =>
                   SubSeq(s, from + Len(texts[k]) + 1, from + Len(texts[k]) + Len(sep)) = sep

\* C6 as claimed: the returned string is the translations in document order
\* with one newline between consecutive translations.
C6_JoinedByOneNewline ==
    pc = "done" => JoinedBy(<<NL>>, DocTranslations, result[1])

\* C6: on completion of translate_pdf the returned string is all translated
\* strings in document order with two newlines (a blank line) between
\* consecutive translations.
C6_JoinedByBlankLine ==
    pc = "done" => JoinedBy(<<NL, NL>>, DocTranslations, result[1])

\* A finished run over three units, an empty translation among them.
C6_Witness ==
    /\ pc = "done"
    /\ Len(Units) = 3
    /\ DocTranslations = << <<"x">>, <<>>, <<"x">> >>
    /\ result = Some(<<"x", NL, NL, NL, NL, "x">>)

\* C7: the writer is invoked exactly once in a run of translate_pdf that ends
\* without a fatal error, after the last unit has been set and before the
\* function returns, on the book as it is at the end; it is never invoked
\* while a unit is untranslated.
C7_WriterOnce ==
    /\ Len(writer_calls) <= 1
    /\ Len(writer_calls) = 1 <=> pc \in {"join", "done"}
    /\ result # None <=> pc = "done"
    /\ \A i \in 1..Len(writer_calls) :
        /\ writer_calls[i].book = book
        /\ Len(set_log) = Len(Units)
        /\ \A k \in 1..Len(Units) : UnitAt(k).translation # None

\* The writer was invoked on a book of two pages and three translated units.
C7_Witness ==
    /\ pc = "join"
    /\ result = None
    /\ Len(writer_calls) = 1
    /\ Len(book) = 2
    /\ Len(book[2]) >= 1
    /\ Len(Units) = 3

\* C8: when make_request raises while translate_pdf is processing unit k, the
\* error leaves translate_pdf: nothing is returned, the writer is never
\* invoked, unit k and the units after it stay untranslated, and the units
\* before k keep the results set on them.
C8_FatalAborts ==
    /\ FatalRaised => pc = "raised"
    /\ pc = "raised" =>
        /\ error # None
        /\ result = None
        /\ writer_calls = <<>>
        /\ Len(request_log) = Len(set_log) + 1
        /\ Here = Units[Len(request_log)]
        /\ \A j \in 1..Len(Units) :
            IF j < Len(request_log)
            THEN CarriesResult(j)
            ELSE UnitAt(j).translation = None /\ UnitAt(j).status = FALSE
        /\ ~ ENABLED Next

\* A fatal error at the second of three units.
C8_Witness ==
    /\ pc = "raised"
    /\ error # None
    /\ Len(Units) = 3
    /\ Len(request_log) = 2
    /\ UnitAt(1).translation # None

\* The progress lines so far count 1, 2, ... against the number of units.
C9_Counts ==
    /\ pc # "idle" => total_contents = Len(Units)
    /\ Len(progress_log) <= Len(Units)
    /\ \A k \in 1..Len(progress_log) :
        progress_log[k] = [processed |-> k, total |-> Len(Units)]
    /\ Len(set_log) \in {Len(progress_log), Len(progress_log) + 1}
    /\ pc \in {"save", "join", "done"} => Len(progress_log) = Len(Units)

\* A step that reports progress changes nothing else but the place in the code.
C9_Observational ==
    progress_log' # progress_log =>
        /\ Len(progress_log') = Len(progress_log) + 1
        /\ pc' = "for_content"
        /\ UNCHANGED <<model, model_name, target_language, book, total_contents,
                       processed_contents, translated_text, page_idx, content_idx,
                       callVars, request_log, return_log, set_log, writer_calls,
                       result, error>>

\* C9: the progress count reported by translate_pdf is 1 after the first unit,
\* grows by one with each processed unit, is reported once per unit, never
\* exceeds the total counted before the loop, and equals it after the last
\* unit; reporting changes nothing else in the run.
C9_Progress == []C9_Counts /\ [][C9_Observational]_vars

\* Three progress lines, the last one 3/3.
C9_Witness ==
    /\ Len(progress_log) = 3
    /\ progress_log[3] = [processed |-> 3, total |-> 3]
    /\ Len(book) = 2


\* The instruction a TEXT unit is to get for a target language.
TextInstruction(language) ==
    CASE language = <<"U4E2D", "U6587">> ->
            <<"U7FFB", "U8BD1", "U4E3A", "U4E2D", "U6587", "UFF1A">>
      [] language = <<"U6CD5", "U8BED">> ->
            <<"T", "r", "a", "n", "s", "l", "a", "t", "e", " ", "t", "o", " ",
              "F", "r", "e", "n", "c", "h", ":">>
      [] language = <<"U65E5", "U8BED">> ->
            <<"U7FFB", "U8A33", "U3092", "U65E5", "U672C", "U8A9E", "U306B", "UFF1A">>
      [] OTHER -> <<"U7FFB", "U8BD1", "U4E3A">> \o language \o <<"UFF1A">>

\* The instruction a TABLE unit is to get for a target language.
TableInstruction(language) ==
    CASE language = <<"U4E2D", "U6587">> ->
            <<"U7FFB", "U8BD1", "U4E3A", "U4E2D", "U6587", "UFF0C", "U4FDD", "U6301",
              "U8868", "U683C", "U683C", "U5F0F", "UFF1A">>
      [] language = <<"U6CD5", "U8BED">> ->
            <<"T", "r", "a", "n", "s", "l", "a", "t", "e", " ", "t", "o", " ",
              "F", "r", "e", "n", "c", "h", ",", " ", "m", "a", "i", "n", "t",
              "a", "i", "n", " ", "t", "a", "b", "l", "e", " ", "f", "o", "r",
              "m", "a", "t", ":">>
      [] language = <<"U65E5", "U8BED">> ->
            <<"U7FFB", "U8A33", "U3092", "U65E5", "U672C", "U8A9E", "U306B", "U3001",
              "U8868", "U306E", "U5F62", "U5F0F", "U3092", "U7DAD", "U6301", "UFF1A">>
      [] OTHER ->
            <<"U7FFB", "U8BD1", "U4E3A">> \o language
                \o <<"UFF0C", "U4FDD", "U6301", "U8868", "U683C", "U683C", "U5F0F", "UFF1A">>

\* C10: translate_prompt is a function of the content type, the source string
\* and the target language: a TEXT unit gets the text instruction of an
\* exactly matching target language followed by the original text, a TABLE
\* unit gets the table-preserving instruction, a newline and its flattened
\* string, and a target language that is not in the mapping gets the generic
\* template with the language put in verbatim.
C10_PromptSelected ==
    p_prompt # None =>
        IF p_content.content_type = "TEXT"
        THEN p_prompt = Some(TextInstruction(p_language) \o p_content.text)
        ELSE p_prompt = Some(TableInstruction(p_language) \o <<"\n">>
                                 \o get_original_as_str(p_content))

\* The prompt of a table of two rows for a language that is not in the mapping.
C10_Witness ==
    /\ p_prompt # None
    /\ p_content.content_type = "TABLE"
    /\ Len(p_content.rows) = 2
    /\ p_language = <<"U5FB7", "U8BED">>
    /\ SubSeq(p_prompt[1], 1, 5) = <<"U7FFB", "U8BD1", "U4E3A", "U5FB7", "U8BED">>

\* ------------------------------------------- make_request: failures and frame
\* The unknown failure of this call has left make_request by the last handler.
C12_Raised ==
    /\ outcomes["Exception"] <= 1
    /\ outcomes["Exception"] = 1 =>
        /\ pc = "raised"
        /\ error = Some("unknown error")
        /\ Len(return_log) = Len(request_log) - 1
        /\ Len(sleeps) = RateLimits
        /\ ~ ENABLED While

\* The step that meets the unknown failure raises at once: no sleep, no change
\* of attempts, nothing returned.
C12_AtOnce ==
    outcomes'["Exception"] = outcomes["Exception"] + 1 =>
        /\ pc' = "raised"
        /\ sleeps' = sleeps
        /\ attempts' = attempts
        /\ return_log' = return_log
        /\ Len(requests') = Len(requests) + 1

\* C12: in OpenAIModel.make_request a failure that is neither a rate limit, a
\* connectivity failure nor a generic API error is fatal the first time it
\* happens: the call raises at once, without a retry, a sleep or a returned
\* (text, success), whatever attempts is at that moment.
C12_UnknownIsFatal == []C12_Raised /\ [][C12_AtOnce]_vars

\* An unknown failure met after two rate limits and an API error.
C12_Witness ==
    /\ outcomes["Exception"] = 1
    /\ attempts = 2
    /\ ApiErrors(outcomes) = 1
    /\ pc = "raised"
    /\ sleeps = <<60, 60>>

\* attempts counts the rate limits of the call and nothing else; the loop is
\* entered again while fewer than three of them were met.
C14_CountsRateLimits ==
    /\ attempts = RateLimits
    /\ pc = "while" => RateLimits < MaxAttempts /\ ENABLED While
    /\ RateLimits = MaxAttempts =>
        /\ pc = "raised"
        /\ error = Some("Rate limit reached. Maximum attempts exceeded.")

\* The step that meets a connectivity failure or a generic API error changes
\* nothing but the record of the request.
C14_Frame ==
    ApiErrors(outcomes') = ApiErrors(outcomes) + 1 =>
        /\ pc = "while" /\ pc' = "while"
        /\ attempts' = attempts
        /\ sleeps' = sleeps
        /\ error' = error
        /\ return_log' = return_log
        /\ <<translation, status>>' = <<translation, status>>
        /\ Len(requests') = Len(requests) + 1

\* C14: in OpenAIModel.make_request a connectivity failure or a generic API
\* error leaves attempts unchanged, causes no sleep and goes back into the loop
\* for another request; so the cap counts rate limits only, summed over the
\* call: the third rate limit raises although API errors came in between.
C14_ApiErrorsNotCounted == []C14_CountsRateLimits /\ [][C14_Frame]_vars

\* The third rate limit of a call that also met an API error: four requests.
C14_Witness ==
    /\ RateLimits = 3
    /\ ApiErrors(outcomes) = 1
    /\ Len(requests) = 4
    /\ pc = "raised"

\* C15: every call of make_request is over after at most 3 backend requests,
\* whatever the backend answers (and so every run of translate_pdf over a
\* finite document ends).
C15_AtMostThreeRequests == Len(requests) <= MaxAttempts

\* C16: OpenAIModel.make_request never returns success = False: a call that
\* ends returns (translation, True) or raises, the loop is never left by its
\* condition (the final return "", False is not reached), and no unit is set
\* to a failed translation with this backend.
C16_NeverFalse ==
    model = "OpenAIModel" =>
        /\ \A k \in 1..Len(return_log) : return_log[k].status = TRUE
        /\ pc = "while" => LoopRuns(attempts)
        /\ pc = "set" => status = TRUE
        /\ \A k \in 1..Len(set_log) : UnitAt(k).status = TRUE

\* A call that used up its rate limits, after a first unit that returned True.
C16_Witness ==
    /\ model = "OpenAIModel"
    /\ RateLimits = 3
    /\ pc = "raised"
    /\ Len(return_log) = 1
    /\ UnitAt(1).status = TRUE

\* ------------------------------------------------------------ gui.py: claims
\* The terminal signals (finished, error) that worker w emitted so far.
TerminalSignals(w) ==
    SelectSeq(emitted,
              LAMBDA e : e.worker = w /\ e.signal \in {"finished", "error"})

\* C13: each run of TranslatorThread.run emits exactly one terminal signal,
\* never both and never none: finished with the translated text when the
\* pipeline completes without a fatal error (the backend answers every
\* request), error with the message when the pipeline fails.
C13_OneTerminalSignal ==
    \A w \in 1..Len(workers) :
        workers[w].pc = "exited" =>
            /\ Len(TerminalSignals(w)) = 1
            /\ TerminalSignals(w)[1] =
                  IF workers[w].backend = "answers"
                  THEN [signal |-> "finished", arg |-> "translated text", worker |-> w]
                  ELSE [signal |-> "error", arg |-> "fatal error", worker |-> w]

\* Worker w is under way: started, and the slot of its terminal signal has not
\* run yet.
UnderWay(w) == ~ workers[w].handled

\* One worker at most, the button disabled as long as it is under way and
\* enabled whenever none is.
C17_ButtonGuardsWorker ==
    /\ Cardinality({w \in 1..Len(workers) : UnderWay(w)}) <= 1
    /\ Cardinality({w \in 1..Len(workers) : workers[w].pc # "exited"}) <= 1
    /\ (\E w \in 1..Len(workers) : UnderWay(w)) =>
            ~ translate_btn /\ ~ ENABLED start_translation
    /\ (\A w \in 1..Len(workers) : ~ UnderWay(w)) => translate_btn

\* No step takes a worker away or sets it back: a run only goes forward.
C17_NoAbort ==
    /\ Len(workers') >= Len(workers)
    /\ \A w \in 1..Len(workers) :
        \/ workers'[w].pc = workers[w].pc
        \/ workers[w].pc = "started" /\ workers'[w].pc \in {"returned", "caught"}
        \/ workers[w].pc \in {"returned", "caught"} /\ workers'[w].pc = "exited"

\* C17: in the window at most one translation worker runs at any time and a
\* started run cannot be aborted: the Translate button is disabled from the
\* moment start_translation passes validation until the slot of the run's
\* finished or error signal has run, so that no second worker can be started,
\* and it is enabled again after every run.
C17_OneWorker == []C17_ButtonGuardsWorker /\ [][C17_NoAbort]_vars

\* A second run under way, its button disabled, after a first run whose error
\* slot enabled the button again.
C17_Witness ==
    /\ Len(workers) = 2
    /\ workers[1].handled
    /\ workers[1].pc = "exited"
    /\ workers[2].pc = "caught"
    /\ ~ translate_btn

\* The validation of start_translation fails on the inputs of the window.
ValidationFails ==
    \/ pdf_path_input = ""
    \/ model_type_combo = "OpenAIModel" /\ api_key_input = ""
    \/ model_type_combo = "GLMModel" /\ glm_url_input = ""

\* A call of start_translation on inputs that fail the validation.
C18_Step ==
    (clicks' = clicks + 1 /\ ValidationFails) =>
        /\ workers' = workers
        /\ translate_btn /\ translate_btn'
        /\ Len(dialogs') = Len(dialogs) + 1
        /\ dialogs'[Len(dialogs')].kind = "warning"
        /\ status_text' = <<>>
        /\ translation_text' = ""
        /\ UNCHANGED <<inputVars, progress_bar, events, emitted>>

\* C18: start_translation starts no worker and leaves the Translate button
\* enabled when the validation fails (empty PDF path; OpenAIModel with an empty
\* API key; GLMModel with an empty GLM URL): it returns after a warning, having
\* only cleared the status and the translation text.
C18_ValidationStops == [][C18_Step]_vars

\* The three warnings one after the other, and no worker.
C18_Witness ==
    /\ clicks = 3
    /\ workers = <<>>
    /\ translate_btn
    /\ {dialogs[i].text : i \in 1..Len(dialogs)} =
          {"Please select a PDF file", "Please enter OpenAI API key",
           "Please enter GLM URL"}

\* -------------------------------------------------------- chatbot.py: claims
\* The last element of a list.
Final(list) == list[Len(list)]

\* What route_tools is to answer on a state: ValueError without a message,
\* "tools" when the last message has a tool call, "__end__" otherwise.
ExpectedRoute(state) ==
    IF Get(state) = <<>> THEN "ValueError"
    ELSE IF Len(Final(Get(state)).tool_calls) > 0 THEN "tools" ELSE END

\* A call of route_tools on a State, the dict the graph keeps, answers as
\* expected.
C19_RouteStep ==
    (node = "route_tools" /\ node' # node /\ graph_state.form = "dict") =>
        /\ routed' = Some(ExpectedRoute(graph_state))
        /\ raised' = IF ExpectedRoute(graph_state) = "ValueError"
                     THEN Some("ValueError") ELSE None

\* How often the tools node ran / how many AI messages asked for a tool.
ToolRuns == Len(SelectSeq(trace, LAMBDA n : n = "tools"))
ToolRequests ==
    Len(SelectSeq(graph_state.messages,
                  LAMBDA m : m.type = "ai" /\ Len(m.tool_calls) > 0))

\* A run of the graph: chatbot and tools take turns, tools runs only for a
\* last message with a tool call and hands over to chatbot, and the run is at
\* its end exactly after an answer of chatbot without a tool call.
C19_Run ==
    driver = "graph" =>
        /\ \A i \in 1..Len(trace) :
              trace[i] = IF i % 2 = 1 THEN "chatbot" ELSE "tools"
        /\ node \in {"tools", "for_tool_call"} =>
              /\ Final(graph_state.messages).type = "ai"
              /\ Len(Final(graph_state.messages).tool_calls) > 0
        /\ (trace # <<>> /\ Final(trace) = "tools") =>
              node \in {"for_tool_call", "chatbot"}
        /\ node = END =>
              /\ Final(trace) = "chatbot"
              /\ Final(graph_state.messages).type = "ai"
              /\ Final(graph_state.messages).tool_calls = <<>>
              /\ ToolRuns = ToolRequests
              /\ ~ ENABLED NextChat
        /\ (routed = Some(END) /\ Final(trace) = "chatbot" /\ node # "route_tools")
              => node = END
        /\ raised = None

AnswersCall(i, tool_call) ==
    /\ invoked[i].name = tool_call.name
    /\ invoked[i].args = tool_call.args
    /\ outputs[i] = [type |-> "tool", content |-> json_dumps(invoked[i].tool_result),
                     tool_calls |-> <<>>, name |-> tool_call.name,
                     tool_call_id |-> tool_call.id]

\* C20: BasicToolNode.__call__ executes the tool calls of the last message
\* only, in the order they are listed, and returns one ToolMessage per tool
\* call in that order, each with the name and the id of its call; without a
\* message (no list, or an empty one) it raises ValueError and invokes no tool.
C20_ToolNode ==
    /\ node = "for_tool_call" =>
        LET calls == Final(Get(graph_state)).tool_calls
        IN /\ Len(outputs) <= Len(calls)
           /\ Len(invoked) = Len(outputs)
           /\ \A i \in 1..Len(outputs) : AnswersCall(i, calls[i])
    /\ (driver = "BasicToolNode" /\ node = "returned") =>
        LET calls == Final(Get(graph_state)).tool_calls
        IN /\ Len(outputs) = Len(calls)
           /\ Len(invoked) = Len(calls)
           /\ \A i \in 1..Len(calls) : AnswersCall(i, calls[i])
    /\ (driver = "graph" /\ node = "chatbot" /\ trace # <<>>) =>
        LET messages == graph_state.messages
            asked == messages[Len(messages) - Len(outputs)]
        IN /\ asked.type = "ai"
           /\ Len(asked.tool_calls) = Len(outputs)
           /\ Len(invoked) = Len(outputs)
           /\ SubSeq(messages, Len(messages) - Len(outputs) + 1, Len(messages)) = outputs
           /\ \A i \in 1..Len(outputs) : AnswersCall(i, asked.tool_calls[i])
    /\ (driver = "BasicToolNode" /\ node # "tools") =>
        IF Get(graph_state) = <<>>
        THEN raised = Some("ValueError") /\ node = "raised" /\ invoked = <<>>
        ELSE raised = None

\* The tool node called on a dict of four messages, two earlier ones an
\* answered tool call: the two tool calls of the last message were run.
C20_Witness ==
    /\ driver = "BasicToolNode"
    /\ node = "returned"
    /\ Len(graph_state.messages) = 4
    /\ Len(outputs) = 2
    /\ outputs[1].tool_call_id = <<"call", 2, 1>>
    /\ outputs[2].tool_call_id = <<"call", 2, 2>>
    /\ invoked[1].tool_result # invoked[2].tool_result

\* ------------------------------------------- translation_chain.py: claims
\* C21: TranslationChain.run never raises: it returns (result, True) when the
\* call of the chain succeeds and ("", False) when that call raises any
\* exception, so that success = False always comes with an empty result.
C21_RunNeverRaises ==
    /\ chain_raised = None
    /\ chain_pc # "raised"
    /\ chain_pc \in {"run", "try", "return"} => ENABLED NextChain
    /\ chain_pc = "done" =>
        /\ chain_outcome # None
        /\ chain_returned =
              Some(IF chain_outcome[1].kind = "value"
                   THEN <<chain_outcome[1].value, TRUE>>
                   ELSE <<"", FALSE>>)
    /\ chain_returned # None =>
        (chain_returned[1][2] = FALSE => chain_returned[1][1] = "")

\* The chain raised on a text that is not empty: run logged it and returned
\* ("", False).
C21_Witness ==
    /\ chain_pc = "done"
    /\ chain_text = "hello"
    /\ chain_outcome = Some([kind |-> "exception", value |-> "ValueError"])
    /\ chain_returned = Some(<<"", FALSE>>)
    /\ Len(chain_log) = 1

\* ------------------------------------------------------- autogpt.py: claims
\* The URL has the d-th listed domain in it, whatever the case of its letters.
HasDomain(url, d) == Contains(chinese_news_domains[d], lower(url))

\* The positions of a list at which the URL has the d-th listed domain.
Holders(list, d) == {u \in 1..Len(list) : HasDomain(list[u], d)}

\* The listed domains some URL of the list has.
Matched(list) == {d \in 1..Len(chinese_news_domains) : Holders(list, d) # {}}

\* The least number of a set of numbers that is not empty.
Least(numbers) == CHOOSE n \in numbers : \A o \in numbers : n <= o

\* C22: on a list of URLs that is not empty, _select_best_chinese_news_url
\* returns the first URL of the list that has the domain of highest priority
\* among the listed domains that some URL has (the priority of the domain
\* comes before the position of the URL), and the first URL of the list when
\* no URL has a listed domain; what it returns is a member of the list.
C22_BestUrl ==
    selected_url # None =>
        /\ \E u \in 1..Len(news_urls) : news_urls[u] = selected_url[1]
        /\ selected_url[1] =
              IF Matched(news_urls) = {}
              THEN news_urls[1]
              ELSE news_urls[Least(Holders(news_urls, Least(Matched(news_urls))))]

\* The third URL wins by its domain over a URL of a lesser listed domain, in
\* capitals, at the head of the list.
C22_Witness ==
    /\ news_urls = <<UrlSinaUpper, UrlElsewhere, UrlPeople>>
    /\ selected_url = Some(UrlPeople)

====
